---- MODULE Spec2Model ----
(***************************************************************************)
(* llm-inline: session context manager, skill installer / store,          *)
(* argument preprocessor and skill executor of llmi.py, as state machines. *)
(***************************************************************************)
EXTENDS Integers, Sequences, FiniteSets, TLC

VARIABLES
    files,      \* session id -> content of ~/.cache/llmi/sessions/<id>.json
    lastOp,     \* the last ContextManager call: [op, sid, out]
    lastSave,   \* the last save_history call: [sid, pat, n, status]
    ret,        \* what the last load_history call returned
    raised,     \* TRUE iff the last ContextManager call raised to its caller
    ppConfig,   \* preprocess_skill_args: the config argument (its 'parameters')
    ppArgs,     \* preprocess_skill_args: the args argument
    ppOut,      \* preprocess_skill_args: its outcome
    store,      \* skill name -> content of ~/.llm-inline/skills/<name>/
    sysPath,    \* sys.path, the module lookup path
    skOp,       \* the last install_skill_from_url / execute_skill call
    skRet,      \* what that call returned: "success", "failure", "propagated"
    cli,        \* the last run of main: its arguments, environment, flow, exit
    userInput,  \* the words of the question (user_input before the join)
    terminal,   \* the terminal-reading block of main: decision and outcome
    ask,        \* the question flow of the last run of main
    env,        \* os.environ as llmi_runtime sees it: variable -> value
    llm_runtime,        \* the global _llm_runtime of llmi_runtime
    vision_llm_runtime, \* the global _vision_llm_runtime of llmi_runtime
    rtOp        \* the last call into llmi_runtime: [op, constructs, out]

histVars == <<files, lastOp, lastSave, ret, raised>>

ppVars == <<ppConfig, ppArgs, ppOut>>

skillVars == <<store, sysPath, skOp, skRet>>

mainVars == <<cli, userInput, terminal, ask>>

rtVars == <<env, llm_runtime, vision_llm_runtime, rtOp>>

vars == <<files, lastOp, lastSave, ret, raised, ppConfig, ppArgs, ppOut,
          store, sysPath, skOp, skRet, cli, userInput, terminal, ask,
          env, llm_runtime, vision_llm_runtime, rtOp>>

-----------------------------------------------------------------------------
(* Bounds of the model *)

\* message lists of length 0..SmallLen are enumerated ...
SmallLen == 2
\* ... and those of length max_history-1 .. max_history+Over
Over == 2

\* argument lists of up to MaxArgs elements
MaxArgs == 3
\* 'parameters' sequences of up to MaxParams entries
MaxParams == 2
\* questions of up to MaxWords words
MaxWords == 3

Sessions == {"s1", "s2"}

-----------------------------------------------------------------------------
(* Session context manager: ContextManager *)

\* self.max_history = 20
max_history == 20

\* as KeptRoles, system entries being kept too
KeptRolesWithSystem == {"user", "assistant", "system"}

KeptRoles == {"user", "assistant"}

\* The message lists handed to save_history.  A list is named by a role
\* pattern and a length; entry i carries content i, so that order and
\* position can be told apart.  "norole" stands for a dict without a
\* 'role' key.
Patterns == {"ua", "sys_first", "sys_last", "sys_third", "norole_last"}

Lengths == (0 .. SmallLen) \cup ((max_history - 1) .. (max_history + Over))

RoleAt(pat, i, n) ==
    LET alt == IF i % 2 = 1 THEN "user" ELSE "assistant" IN
    CASE pat = "ua"          -> alt
      [] pat = "sys_first"   -> IF i = 1 THEN "system" ELSE alt
      [] pat = "sys_last"    -> IF i = n THEN "system" ELSE alt
      [] pat = "sys_third"   -> IF i % 3 = 0 THEN "system" ELSE alt
      [] pat = "norole_last" -> IF i = n THEN "norole" ELSE alt

Messages(pat, n) == [i \in 1 .. n |-> [role |-> RoleAt(pat, i, n), content |-> i]]

\* [m for m in messages if m['role'] in ('user', 'assistant')]
RECURSIVE FilterRoles(_)
FilterRoles(ms) ==
    IF ms = <<>> THEN <<>>
    ELSE IF Head(ms).role \in KeptRoles
         THEN <<Head(ms)>> \o FilterRoles(Tail(ms))
         ELSE FilterRoles(Tail(ms))

\* as TruncateLast, the oldest entry alone being dropped from a full list
TruncateLastDropOldest(ms) ==
    IF Len(ms) >= max_history THEN Tail(ms) ELSE ms

\* as TruncateLast, the length test off by one
TruncateLastOffByOne(ms) ==
    IF Len(ms) > max_history + 1
    THEN SubSeq(ms, Len(ms) - max_history + 1, Len(ms))
    ELSE ms

\* as TruncateLast, one entry fewer being kept
TruncateLastKeepOdd(ms) ==
    IF Len(ms) > max_history
    THEN SubSeq(ms, Len(ms) - max_history + 2, Len(ms))
    ELSE ms

\* history_to_save[-self.max_history:] when longer than max_history
TruncateLast(ms) ==
    IF Len(ms) > max_history
    THEN SubSeq(ms, Len(ms) - max_history + 1, Len(ms))
    ELSE ms

\* as history_to_save, the truncation before the role filter
history_to_save_TruncateFirst(ms) == FilterRoles(TruncateLast(ms))

\* save_history: the role filter, then the truncation
history_to_save(ms) == TruncateLast(FilterRoles(ms))

\* m['role'] raises KeyError on a dict without that key
RoleKeyError(ms) == \E i \in 1 .. Len(ms) : ms[i].role = "norole"

\* Content of a session file.  kind: "absent" (no file), "array" (a JSON
\* array, items holds it), "object" (valid JSON that is no array),
\* "garbage" (bytes that do not parse as JSON, e.g. a partial write).
NoFile == [kind |-> "absent", items |-> <<>>]
Garbage == [kind |-> "garbage", items |-> <<>>]
JsonObject == [kind |-> "object", items |-> <<>>]

\* json.dump(history_to_save, f, ensure_ascii=False, indent=2)
json_dump(ms) == [kind |-> "array", items |-> ms]

\* Values load_history hands back.  kind: "list" or "dict"; "none" before
\* any load.
NoRet == [kind |-> "none", items |-> <<>>]
EmptyList == [kind |-> "list", items |-> <<>>]

\* load_history: [] if the file does not exist or reading/parsing raises,
\* otherwise whatever json.load produced
load_history(f) ==
    CASE f.kind = "absent"  -> EmptyList
      [] f.kind = "garbage" -> EmptyList
      [] f.kind = "array"   -> [kind |-> "list", items |-> f.items]
      [] f.kind = "object"  -> [kind |-> "dict", items |-> <<>>]

\* lastSave remembers a save_history call for as long as only load_history
\* calls on the same session follow it: its session, its status ("written",
\* "write_failed", "raised") and, when the file was written, its argument.
NoSave == [sid |-> "none", pat |-> "none", n |-> 0, status |-> "none"]

SaveRecord(sid, pat, n, status) ==
    IF status = "written"
    THEN [sid |-> sid, pat |-> pat, n |-> n, status |-> status]
    ELSE [sid |-> sid, pat |-> "none", n |-> 0, status |-> status]

\* What save_history leaves in the file.  io is the outcome of the write:
\* "ok", "open_failed" (open(..., 'w') raised, file untouched) or
\* "dump_failed" (the file was truncated by open and the dump raised midway).
FileAfterSave(old, ms, io) ==
    CASE io = "ok"          -> json_dump(history_to_save(ms))
      [] io = "open_failed" -> old
      [] io = "dump_failed" -> Garbage

IoOutcomes == {"ok", "open_failed", "dump_failed"}

HistInit ==
    /\ files = [s \in Sessions |-> NoFile]
    /\ lastOp = [op |-> "none", sid |-> "none", out |-> "none"]
    /\ lastSave = NoSave
    /\ ret = NoRet
    /\ raised = FALSE

\* ContextManager(sid).save_history(Messages(pat, n))
Save(sid, pat, n, io) ==
    LET ms == Messages(pat, n) IN
    /\ lastOp' = [op |-> "save", sid |-> sid, out |-> "none"]
    /\ ret' = NoRet
    /\ IF RoleKeyError(ms)
       THEN /\ raised' = TRUE
            /\ files' = files
            /\ lastSave' = SaveRecord(sid, pat, n, "raised")
       ELSE /\ raised' = FALSE
            /\ files' = [files EXCEPT ![sid] = FileAfterSave(files[sid], ms, io)]
            /\ lastSave' = SaveRecord(sid, pat, n,
                                       IF io = "ok" THEN "written" ELSE "write_failed")

\* ContextManager(sid).load_history()
Load(sid) ==
    /\ lastOp' = [op |-> "load", sid |-> sid, out |-> "none"]
    /\ ret' = load_history(files[sid])
    /\ raised' = FALSE
    /\ lastSave' = IF lastSave.sid = sid THEN lastSave ELSE NoSave
    /\ UNCHANGED files

\* as unlink, the files of all sessions being removed
unlinkAllSessions(fs, sid) == [s \in DOMAIN fs |-> NoFile]

\* self.history_file.unlink()
unlink(fs, sid) == [fs EXCEPT ![sid] = NoFile]

\* What clear_history did: "absent" (no file, nothing done), "removed", or
\* "unlink_failed" (unlink raised; the exception is printed, not propagated)
ClearOutcome(f, unlinked) ==
    IF f.kind = "absent" THEN "absent"
    ELSE IF unlinked THEN "removed" ELSE "unlink_failed"

\* ContextManager(sid).clear_history(); unlinked = FALSE when unlink raises
Clear(sid, unlinked) ==
    /\ lastOp' = [op |-> "clear", sid |-> sid, out |-> ClearOutcome(files[sid], unlinked)]
    /\ ret' = NoRet
    /\ raised' = FALSE
    /\ files' = IF ClearOutcome(files[sid], unlinked) = "removed"
                THEN unlink(files, sid)
                ELSE files
    /\ lastSave' = NoSave

\* Another program (or a crash) leaves bytes in the session file that are
\* not a JSON array of messages.
Tamper(sid, c) ==
    /\ files' = [files EXCEPT ![sid] = c]
    /\ lastOp' = [op |-> "tamper", sid |-> sid, out |-> "none"]
    /\ ret' = NoRet
    /\ raised' = FALSE
    /\ lastSave' = NoSave

HistOnly == UNCHANGED <<ppVars, rtVars, skillVars, mainVars>>

\* A failing write does not depend on the list being saved: one list stands
\* for all of them there.
SaveAny == \E sid \in Sessions, pat \in Patterns, n \in Lengths, io \in IoOutcomes :
               /\ io = "ok" \/ (pat = "ua" /\ n = max_history)
               /\ Save(sid, pat, n, io)
               /\ HistOnly

LoadAny == \E sid \in Sessions : Load(sid) /\ HistOnly

ClearAny == \E sid \in Sessions, unlinked \in BOOLEAN : Clear(sid, unlinked) /\ HistOnly

TamperAny == \E sid \in Sessions, c \in {Garbage, JsonObject} : Tamper(sid, c) /\ HistOnly

-----------------------------------------------------------------------------
(* Files named on the command line, as read_file_content and               *)
(* preprocess_skill_args see them                                          *)

\* 10 * 1024 * 1024, the size above which a file is rejected
SizeLimit == 10 * 1024 * 1024

\* A directory entry: kind "missing", "dir" or "file"; a file has bytes
\* head followed by pad bytes "a" (so that large files stay small values),
\* and readable = FALSE when open() raises on it.  Bytes are "CR", "LF",
\* "xFF" (a byte that is not valid UTF-8) and ASCII letters.
NoEntry == [kind |-> "missing", readable |-> FALSE, head |-> <<>>, pad |-> 0]

RegularFile(head, pad, readable) ==
    [kind |-> "file", readable |-> readable, head |-> head, pad |-> pad]

Fs(path) ==
    CASE path = "hello.txt"  -> RegularFile(<<"h", "e", "l", "l", "o">>, 0, TRUE)
      [] path = "dos.txt"    -> RegularFile(<<"a", "CR", "LF", "b">>, 0, TRUE)
      [] path = "image.png"  -> RegularFile(<<"xFF", "a">>, 0, TRUE)
      [] path = "limit.txt"  -> RegularFile(<<"a">>, SizeLimit - 1, TRUE)
      [] path = "big.txt"    -> RegularFile(<<"a">>, SizeLimit, TRUE)
      [] path = "secret.txt" -> RegularFile(<<"a">>, 0, FALSE)
      [] path = "docs"       -> [kind |-> "dir", readable |-> TRUE, head |-> <<>>, pad |-> 0]
      [] OTHER               -> NoEntry

Paths == {"", "nofile.txt", "docs", "big.txt", "limit.txt", "secret.txt",
          "hello.txt", "dos.txt", "image.png"}

\* abs_path.stat().st_size
st_size(f) == Len(f.head) + f.pad

\* Path(file_value).expanduser().resolve(), and abs_path.name
resolve(path) == <<"/cwd", path>>

basename(abs_path) == abs_path[2]

\* decoding as UTF-8 raises UnicodeDecodeError on an invalid byte
Utf8Valid(bytes) == \A i \in 1 .. Len(bytes) : bytes[i] # "xFF"

\* open(abs_path, 'r', encoding='utf-8'): text mode translates "\r\n" and
\* "\r" to "\n" while reading
RECURSIVE UniversalNewlines(_)
UniversalNewlines(bytes) ==
    IF bytes = <<>> THEN <<>>
    ELSE IF Head(bytes) = "CR"
         THEN IF Len(bytes) > 1 /\ bytes[2] = "LF"
              THEN <<"LF">> \o UniversalNewlines(Tail(Tail(bytes)))
              ELSE <<"LF">> \o UniversalNewlines(Tail(bytes))
         ELSE <<Head(bytes)>> \o UniversalNewlines(Tail(bytes))

\* f.read() in text mode
read_text(f) == [enc |-> "text", head |-> UniversalNewlines(f.head), pad |-> f.pad]

\* base64.b64encode(binary_content).decode('utf-8')
read_base64(f) == [enc |-> "base64", head |-> f.head, pad |-> f.pad]

-----------------------------------------------------------------------------
(* Argument preprocessor: preprocess_skill_args *)

\* A positional argument as typed on the command line
StrArg(s) == [t |-> "str", s |-> s]

\* file_info: the dict that takes the place of a file argument
file_info(abs_path, f, content, is_binary) ==
    [t |-> "file_info", path |-> abs_path, name |-> basename(abs_path),
     size |-> st_size(f), content |-> content, is_binary |-> is_binary]

\* as ReadFileArg, without the size check
ReadFileArgNoSizeLimit(file_value) ==
    LET abs_path == resolve(file_value)
        f == Fs(file_value)
        failed == [ok |-> FALSE, info |-> StrArg(file_value)]
    IN
    IF f.kind = "missing" THEN failed
    ELSE IF f.kind # "file" THEN failed
    ELSE IF ~f.readable THEN failed
    ELSE IF Utf8Valid(f.head)
         THEN [ok |-> TRUE, info |-> file_info(abs_path, f, read_text(f), FALSE)]
         ELSE [ok |-> TRUE, info |-> file_info(abs_path, f, read_base64(f), TRUE)]

\* The body of the try block: the checks and the read of the file named by
\* file_value.  ok = FALSE stands for every 'return args' in it, the one of
\* the except clause included.
ReadFileArg(file_value) ==
    LET abs_path == resolve(file_value)
        f == Fs(file_value)
        failed == [ok |-> FALSE, info |-> StrArg(file_value)]
    IN
    IF f.kind = "missing" THEN failed
    ELSE IF f.kind # "file" THEN failed
    ELSE IF st_size(f) > SizeLimit THEN failed
    ELSE IF ~f.readable THEN failed
    ELSE IF Utf8Valid(f.head)
         THEN [ok |-> TRUE, info |-> file_info(abs_path, f, read_text(f), FALSE)]
         ELSE [ok |-> TRUE, info |-> file_info(abs_path, f, read_base64(f), TRUE)]

\* p.get('type') == 'file'
IsFileParam(p) == p.type = "file"

file_params(parameters) == SelectSeq(parameters, IsFileParam)

\* the position at which the parameter is declared
file_index_AsDeclared(parameters, param) ==
    CHOOSE i \in 1 .. Len(parameters) :
        /\ parameters[i] = param
        /\ \A j \in 1 .. (i - 1) : parameters[j] # param

\* file_index = 0 (position 1 of a TLA+ sequence), whatever the parameter
file_index(parameters, param) == 1

Returned(val) == [exc |-> FALSE, val |-> val]

KeyErrorRaised == [exc |-> TRUE, val |-> <<>>]

\* The for loop over file_params: param['name'] raises KeyError on an entry
\* without a name; args[0], when present and not empty, is read and
\* processed_args[file_index] replaced; a failed read, like any exception
\* in the try block (an index out of range), returns args.
RECURSIVE file_param_loop(_, _, _, _)
file_param_loop(fps, parameters, args, processed_args) ==
    IF fps = <<>> THEN Returned(processed_args)
    ELSE IF ~Head(fps).named THEN KeyErrorRaised
    ELSE IF Len(args) > 0 /\ args[1].s # ""
         THEN LET r == ReadFileArg(args[1].s)
                  idx == file_index(parameters, Head(fps))
              IN IF r.ok /\ idx \in 1 .. Len(processed_args)
                 THEN file_param_loop(Tail(fps), parameters, args,
                                      [processed_args EXCEPT ![idx] = r.info])
                 ELSE Returned(args)
         ELSE file_param_loop(Tail(fps), parameters, args, processed_args)

preprocess_skill_args(config, args) ==
    IF ~config.has_parameters THEN Returned(args)
    ELSE IF file_params(config.parameters) = <<>> THEN Returned(args)
    ELSE file_param_loop(file_params(config.parameters), config.parameters, args, args)

SeqsUpTo(S, n) == UNION {[1 .. k -> S] : k \in 0 .. n}

\* Entries of a manifest's 'parameters': the declared type, and whether the
\* entry has a 'name'
ParamKinds == {[type |-> "file", named |-> TRUE],
               [type |-> "string", named |-> TRUE],
               [type |-> "file", named |-> FALSE]}

ParamConfigs ==
    {[has_parameters |-> FALSE, parameters |-> <<>>]} \cup
    {[has_parameters |-> TRUE, parameters |-> ps] : ps \in SeqsUpTo(ParamKinds, MaxParams)}

\* Further positional arguments
RestArgs == {"en", "hello.txt"}

ArgLists ==
    {<<>>} \cup
    {<<StrArg(p)>> \o [i \in DOMAIN rest |-> StrArg(rest[i])] :
        p \in Paths, rest \in SeqsUpTo(RestArgs, MaxArgs - 1)}

NotRun == [exc |-> FALSE, val |-> <<[t |-> "not_run"]>>]

PpIdleInit ==
    /\ ppConfig = [has_parameters |-> FALSE, parameters |-> <<>>]
    /\ ppArgs = <<>>
    /\ ppOut = NotRun

PpInit ==
    /\ ppConfig \in ParamConfigs
    /\ ppArgs \in ArgLists
    /\ ppOut = NotRun

\* processed_args = preprocess_skill_args(config, args)
Preprocess ==
    /\ ppOut = NotRun
    /\ ppOut' = preprocess_skill_args(ppConfig, ppArgs)
    /\ UNCHANGED <<ppConfig, ppArgs>>
    /\ UNCHANGED <<histVars, skillVars, mainVars, rtVars>>

-----------------------------------------------------------------------------
(* Skill store: get_skills_dir, load_skill *)

Names == {"translate", "genimage", "list"}

Versions == {"1.0", "2.0"}

HandlerNames == {"run.py", "alt.py"}

\* A manifest (the dict parsed from skill.json).  A key that is absent has
\* the value "NONE"; has_parameters tells whether 'parameters' is a key.
Manifest(name, description, version, handler, has_parameters, parameters) ==
    [name |-> name, description |-> description, version |-> version,
     handler |-> handler, has_parameters |-> has_parameters,
     parameters |-> parameters]

NoManifest == Manifest("NONE", "NONE", "NONE", "NONE", FALSE, <<>>)

TranslateParams == <<[type |-> "file", named |-> TRUE], [type |-> "string", named |-> TRUE]>>

\* a 'parameters' sequence whose entry has neither 'name' nor 'description'
UnnamedParams == <<[type |-> "string", named |-> FALSE]>>

\* The manifests offered for installation that carry all required fields
ValidManifests ==
    {Manifest("translate", "d", v, h, TRUE, TranslateParams) :
        v \in Versions, h \in {"NONE"} \cup HandlerNames}
    \cup {Manifest("genimage", "d", "1.0", "run.py", FALSE, <<>>),
          Manifest("genimage", "d", "1.0", "NONE", TRUE, UnnamedParams)}

\* ... and those that lack one or more of them
InvalidManifests ==
    {Manifest(n, d, v, "run.py", FALSE, <<>>) :
        n \in {"NONE", "translate"}, d \in {"NONE", "d"}, v \in {"NONE", "1.0"}}
    \ {Manifest("translate", "d", "1.0", "run.py", FALSE, <<>>)}

\* as required_fields, 'name' alone being required
required_fields_NameOnly == {"name"}

\* required_fields = ['name', 'description', 'version']
required_fields == {"name", "description", "version"}

HasField(m, field) ==
    CASE field = "name"        -> m.name # "NONE"
      [] field = "description" -> m.description # "NONE"
      [] field = "version"     -> m.version # "NONE"

\* <skills_dir>/<name>/: whether the directory exists, the content of its
\* skill.json (kind "absent", "garbage" or "object") and, for each handler
\* file name, "none" or the version of the source the file was copied from
EmptyDir == [exists |-> FALSE,
             config |-> [kind |-> "absent", m |-> NoManifest],
             handlers |-> [h \in HandlerNames |-> "none"]]

\* load_skill: None when skill.json is absent or does not parse
load_skill(st, skill_name) ==
    IF skill_name \in Names /\ st[skill_name].config.kind = "object"
    THEN [found |-> TRUE, m |-> st[skill_name].config.m]
    ELSE [found |-> FALSE, m |-> NoManifest]

-----------------------------------------------------------------------------
(* Skill installer: install_skill_from_url *)

\* What the manifest URL delivers.  kind: "garbage" (not JSON), "array",
\* "number", "string" (JSON, but no object) or "object" (m holds it).
Body(kind, m) == [kind |-> kind, m |-> m]

Bodies ==
    {Body(k, NoManifest) : k \in {"garbage", "array", "number", "string"}}
    \cup {Body("object", m) : m \in ValidManifests \cup InvalidManifests}

\* The source of an install: scheme "file" or "http"; fetch, the state of
\* the manifest at the source ("ok", "missing", "error"); asset, the state
\* of the handler asset next to it; write, the outcome of writing
\* skill.json ("ok", "failed").
Source(scheme, fetch, body, asset, write) ==
    [scheme |-> scheme, fetch |-> fetch, body |-> body, asset |-> asset, write |-> write]

\* The validation loop: 'field not in config' for each required field.  A
\* JSON array has none of them; on a number the test raises TypeError; a
\* string passes only if it contains all three words and then config['name']
\* raises TypeError.  Each of these ends in 'return False'.
Rejected(body) ==
    \/ body.kind # "object"
    \/ \E field \in required_fields : ~HasField(body.m, field)

\* Whether execute_skill gets as far as loading the handler of the skill
HandlerLoaded(st, name) ==
    LET config == load_skill(st, name) IN
    /\ config.found
    /\ config.m.handler # "NONE"
    /\ st[name].handlers[config.m.handler] # "none"

\* Whether the handler fetch ends in the 'return False' of the file:// branch
HandlerFetchReturnsFalse(src) == src.scheme = "file" /\ src.asset = "missing"

\* as InstallAccepted, but a failed handler fetch restores the old skill.json
InstallAcceptedRollback(old, src) ==
    LET m == src.body.m
        made == [old EXCEPT !.exists = TRUE]
        written == [made EXCEPT !.config = [kind |-> "object", m |-> m]]
    IN
    IF src.write # "ok"
    THEN [dir |-> [made EXCEPT !.config = [kind |-> "garbage", m |-> NoManifest]],
          ret |-> "failure", cls |-> "write_failed"]
    ELSE IF m.handler = "NONE"
    THEN [dir |-> written, ret |-> "success", cls |-> "installed"]
    ELSE IF src.asset = "ok"
    THEN [dir |-> [written EXCEPT !.handlers[m.handler] = m.version],
          ret |-> "success", cls |-> "installed"]
    ELSE IF HandlerFetchReturnsFalse(src)
    THEN [dir |-> written, ret |-> "failure", cls |-> "handler_not_found"]
    ELSE [dir |-> made, ret |-> "success", cls |-> "handler_warning"]

\* Steps 4-6 for an accepted manifest: mkdir, write skill.json, fetch and
\* write the handler.  Gives the new directory and the returned value.
InstallAccepted(old, src) ==
    LET m == src.body.m
        made == [old EXCEPT !.exists = TRUE]
        written == [made EXCEPT !.config = [kind |-> "object", m |-> m]]
    IN
    IF src.write # "ok"
    THEN [dir |-> [made EXCEPT !.config = [kind |-> "garbage", m |-> NoManifest]],
          ret |-> "failure", cls |-> "write_failed"]
    ELSE IF m.handler = "NONE"
    THEN [dir |-> written, ret |-> "success", cls |-> "installed"]
    ELSE IF src.asset = "ok"
    THEN [dir |-> [written EXCEPT !.handlers[m.handler] = m.version],
          ret |-> "success", cls |-> "installed"]
    ELSE IF HandlerFetchReturnsFalse(src)
    THEN [dir |-> written, ret |-> "failure", cls |-> "handler_not_found"]
    ELSE [dir |-> written, ret |-> "success", cls |-> "handler_warning"]

\* The record of the last skill operation
SkOp(op, name, cls, src, beh, args, margs) ==
    [op |-> op, name |-> name, cls |-> cls, src |-> src, beh |-> beh,
     args |-> args, margs |-> margs]

NoSource == Source("none", "none", Body("garbage", NoManifest), "none", "none")

NotCalled == <<[t |-> "not_called"]>>

\* install_skill_from_url(url)
Install(src) ==
    IF src.fetch # "ok"
    THEN /\ skOp' = SkOp("install", "NONE", "fetch_failed", src, "none", <<>>, NotCalled)
         /\ skRet' = "failure"
         /\ UNCHANGED <<store, sysPath>>
    ELSE IF src.body.kind = "garbage"
    THEN /\ skOp' = SkOp("install", "NONE", "bad_json", src, "none", <<>>, NotCalled)
         /\ skRet' = "failure"
         /\ UNCHANGED <<store, sysPath>>
    ELSE IF Rejected(src.body)
    THEN /\ skOp' = SkOp("install", "NONE", "rejected", src, "none", <<>>, NotCalled)
         /\ skRet' = "failure"
         /\ UNCHANGED <<store, sysPath>>
    ELSE LET r == InstallAccepted(store[src.body.m.name], src) IN
         /\ store' = [store EXCEPT ![src.body.m.name] = r.dir]
         /\ skOp' = SkOp("install", src.body.m.name, r.cls, src, "none", <<>>, NotCalled)
         /\ skRet' = r.ret
         /\ UNCHANGED sysPath

\* Inputs that cannot matter are held at one value: the body when the fetch
\* fails, the asset when the manifest is refused or names no handler, the
\* write when the manifest is refused.
Sources ==
    {Source(s, f, Body("garbage", NoManifest), "ok", "ok") :
        s \in {"file", "http"}, f \in {"missing", "error"}}
    \cup {Source(s, "ok", b, "ok", "ok") :
        s \in {"file", "http"}, b \in {x \in Bodies : Rejected(x)}}
    \cup {Source(s, "ok", b, "ok", w) :
        s \in {"file", "http"}, b \in {x \in Bodies : ~Rejected(x)},
        w \in {"ok", "failed"}}
    \cup {Source(s, "ok", b, a, "ok") :
        s \in {"file", "http"},
        b \in {x \in Bodies : ~Rejected(x) /\ x.m.handler # "NONE"},
        a \in {"missing", "error"}}

-----------------------------------------------------------------------------
(* Skill executor: execute_skill *)

\* str(skill_dir), an entry of sys.path
skill_dir(name) == [dir |-> "~/.llm-inline/skills", sub |-> name]

\* sys.path when execute_skill is entered: the interpreter's own entries and
\* one skill directory that the environment (PYTHONPATH) already lists
BasePath == <<[dir |-> "/usr/lib/python3", sub |-> ""], skill_dir("genimage")>>

\* list.remove(x): removes the first entry equal to x
RECURSIVE RemoveFirst(_, _)
RemoveFirst(path, x) ==
    IF path = <<>> THEN <<>>
    ELSE IF Head(path) = x THEN Tail(path)
    ELSE <<Head(path)>> \o RemoveFirst(Tail(path), x)

\* the finally clause: if str(skill_dir) in sys.path: sys.path.remove(...)
finally_cleanup(path, dir) ==
    IF \E i \in 1 .. Len(path) : path[i] = dir THEN RemoveFirst(path, dir) ELSE path

\* What the handler module does when imported and when its main is called
Behaviours == {"ret_true", "ret_false", "ret_other", "no_main", "import_error",
               "raise_exception", "raise_systemexit"}

\* as HandlerResult, a result that is no boolean being a failure
HandlerResultNonBoolFails(beh) ==
    CASE beh = "ret_true"         -> "success"
      [] beh = "ret_false"        -> "failure"
      [] beh = "ret_other"        -> "failure"
      [] beh = "no_main"          -> "failure"
      [] beh = "import_error"     -> "failure"
      [] beh = "raise_exception"  -> "failure"
      [] beh = "raise_systemexit" -> "propagated"

\* The value execute_skill returns for each behaviour; "propagated" when the
\* exception is no Exception and leaves execute_skill
HandlerResult(beh) ==
    CASE beh = "ret_true"         -> "success"
      [] beh = "ret_false"        -> "failure"
      [] beh = "ret_other"        -> "success"
      [] beh = "no_main"          -> "failure"
      [] beh = "import_error"     -> "failure"
      [] beh = "raise_exception"  -> "failure"
      [] beh = "raise_systemexit" -> "propagated"

MainCalled(beh) == beh \in {"ret_true", "ret_false", "ret_other",
                            "raise_exception", "raise_systemexit"}

\* as RunHandler, the cleanup being skipped when the handler raises
RunHandlerCleanupOnReturn(path, dir, beh) ==
    [ret |-> HandlerResult(beh),
     path |-> IF beh \in {"import_error", "raise_exception", "raise_systemexit"}
              THEN <<dir>> \o path
              ELSE finally_cleanup(<<dir>> \o path, dir)]

\* sys.path.insert(0, str(skill_dir)); try: ... finally: cleanup
RunHandler(path, dir, beh) ==
    [ret |-> HandlerResult(beh), path |-> finally_cleanup(<<dir>> \o path, dir)]

\* The else branch that prints the manifest: param['name'] and
\* param['description'] raise KeyError on an entry without them
PrintInfoRaises(m) ==
    m.has_parameters /\ \E i \in 1 .. Len(m.parameters) : ~m.parameters[i].named

ExecArgs == {<<>>, <<StrArg("hello.txt"), StrArg("en")>>}

\* execute_skill(skill_name, args)
Execute(name, args, beh) ==
    LET config == load_skill(store, name)
        m == config.m
    IN
    IF ~config.found
    THEN /\ skOp' = SkOp("execute", name, "not_found", NoSource, "none", args, NotCalled)
         /\ skRet' = "failure"
         /\ UNCHANGED <<store, sysPath>>
    ELSE IF m.handler = "NONE"
    THEN /\ skOp' = SkOp("execute", name, "no_handler", NoSource, "none", args, NotCalled)
         /\ skRet' = IF PrintInfoRaises(m) THEN "failure" ELSE "success"
         /\ UNCHANGED <<store, sysPath>>
    ELSE IF store[name].handlers[m.handler] = "none"
    THEN /\ skOp' = SkOp("execute", name, "handler_missing", NoSource, "none", args, NotCalled)
         /\ skRet' = "failure"
         /\ UNCHANGED <<store, sysPath>>
    ELSE LET pp == preprocess_skill_args(m, args) IN
         IF pp.exc
         THEN /\ skOp' = SkOp("execute", name, "preprocess_raised", NoSource, "none", args, NotCalled)
              /\ skRet' = "failure"
              /\ UNCHANGED <<store, sysPath>>
         ELSE LET r == RunHandler(sysPath, skill_dir(name), beh) IN
              /\ skOp' = SkOp("execute", name, "handler", NoSource, beh, args,
                              IF MainCalled(beh) THEN pp.val ELSE NotCalled)
              /\ skRet' = r.ret
              /\ sysPath' = r.path
              /\ UNCHANGED store

SkillInit ==
    /\ store = [n \in Names |-> EmptyDir]
    /\ sysPath = BasePath
    /\ skOp = SkOp("none", "NONE", "none", NoSource, "none", <<>>, NotCalled)
    /\ skRet = "none"

SkillOnly == UNCHANGED <<histVars, ppVars, rtVars, mainVars>>

InstallAny == \E src \in Sources : Install(src) /\ SkillOnly

\* Whether execute_skill takes the branch that prints the manifest
NoHandler(st, name) ==
    LET config == load_skill(st, name) IN config.found /\ config.m.handler = "NONE"

\* The handler's behaviour matters only when the handler is loaded, the
\* arguments only then and when the manifest is printed: one value stands
\* for all of them otherwise.
ExecuteAny == \E name \in Names, args \in ExecArgs, beh \in Behaviours :
                  /\ HandlerLoaded(store, name) \/ beh = "ret_true"
                  /\ HandlerLoaded(store, name) \/ NoHandler(store, name) \/ args = <<>>
                  /\ Execute(name, args, beh)
                  /\ SkillOnly

-----------------------------------------------------------------------------
(* main: the block that decides whether the terminal is read *)

\* A word of the command line is named by a string; Spell gives its
\* characters.  A character outside ASCII is named by its code point.
QuestionWords == {"Error", "LOG", "above", "fix", "read", "terminal", "setup",
                  "hello", "baocuo", "gangcai"}

Spell(word) ==
    CASE word = "Error" -> <<"E", "r", "r", "o", "r">>
      [] word = "LOG" -> <<"L", "O", "G">>
      [] word = "above" -> <<"a", "b", "o", "v", "e">>
      [] word = "fix" -> <<"f", "i", "x">>
      [] word = "read" -> <<"r", "e", "a", "d">>
      [] word = "terminal" -> <<"t", "e", "r", "m", "i", "n", "a", "l">>
      [] word = "setup" -> <<"s", "e", "t", "u", "p">>
      [] word = "hello" -> <<"h", "e", "l", "l", "o">>
      [] word = "translate" -> <<"t", "r", "a", "n", "s", "l", "a", "t", "e">>
      [] word = "genimage" -> <<"g", "e", "n", "i", "m", "a", "g", "e">>
      [] word = "hello.txt" -> <<"h", "e", "l", "l", "o", ".", "t", "x", "t">>
      [] word = "en" -> <<"e", "n">>
      [] word = "baocuo" -> <<"U+62A5", "U+9519">>
      [] word = "gangcai" -> <<"U+521A", "U+624D">>
      [] OTHER -> <<"?">>

\* " ".join(args): the words, one space between two of them (strip() has
\* nothing to remove, a word holding no white space)
RECURSIVE join(_)
join(words) ==
    IF words = <<>> THEN <<>>
    ELSE IF Len(words) = 1 THEN Spell(words[1])
    ELSE Spell(Head(words)) \o <<" ">> \o join(Tail(words))

UpperCase == <<"A", "B", "C", "D", "E", "F", "G", "H", "I", "J", "K", "L", "M",
               "N", "O", "P", "Q", "R", "S", "T", "U", "V", "W", "X", "Y", "Z">>

LowerCase == <<"a", "b", "c", "d", "e", "f", "g", "h", "i", "j", "k", "l", "m",
               "n", "o", "p", "q", "r", "s", "t", "u", "v", "w", "x", "y", "z">>

\* str.lower() on the characters of the model
lower(text) ==
    [i \in DOMAIN text |->
        IF \E j \in DOMAIN UpperCase : UpperCase[j] = text[i]
        THEN LowerCase[CHOOSE j \in DOMAIN UpperCase : UpperCase[j] = text[i]]
        ELSE text[i]]

\* k in text, for strings
Contains(text, k) ==
    \E i \in 0 .. (Len(text) - Len(k)) : SubSeq(text, i + 1, i + Len(k)) = k

\* any(k in user_input_lower for k in keywords)
any_in(keywords, text) == \E k \in keywords : Contains(text, k)

\* error_keywords = ['U+62A5 U+9519', 'U+9519 U+8BEF', 'error', 'exception', 'fail', 'failed']
error_keywords ==
    {<<"U+62A5", "U+9519">>,
     <<"U+9519", "U+8BEF">>,
     <<"e", "r", "r", "o", "r">>,
     <<"e", "x", "c", "e", "p", "t", "i", "o", "n">>,
     <<"f", "a", "i", "l">>,
     <<"f", "a", "i", "l", "e", "d">>}

\* target_keywords = ['output', 'U+8F93 U+51FA', 'log', 'U+65E5 U+5FD7', 'content', 'U+5185 U+5BB9']
target_keywords ==
    {<<"o", "u", "t", "p", "u", "t">>,
     <<"U+8F93", "U+51FA">>,
     <<"l", "o", "g">>,
     <<"U+65E5", "U+5FD7">>,
     <<"c", "o", "n", "t", "e", "n", "t">>,
     <<"U+5185", "U+5BB9">>}

\* position_keywords = ['U+4E0A U+9762', 'above', 'prev', 'U+4E4B U+524D', 'U+521A U+624D', 'U+521A U+521A', 'last', 'recent', 'up', 'previous', 'U+8FD9 U+4E2A']
position_keywords ==
    {<<"U+4E0A", "U+9762">>,
     <<"a", "b", "o", "v", "e">>,
     <<"p", "r", "e", "v">>,
     <<"U+4E4B", "U+524D">>,
     <<"U+521A", "U+624D">>,
     <<"U+521A", "U+521A">>,
     <<"l", "a", "s", "t">>,
     <<"r", "e", "c", "e", "n", "t">>,
     <<"u", "p">>,
     <<"p", "r", "e", "v", "i", "o", "u", "s">>,
     <<"U+8FD9", "U+4E2A">>}

\* action_keywords = ['U+5206 U+6790', 'analyze', 'check', 'U+770B', 'U+89E3 U+91CA', 'explain', 'fix', 'solve', 'U+89E3 U+51B3', 'U+4EC0 U+4E48 U+610F U+601D', 'mean']
action_keywords ==
    {<<"U+5206", "U+6790">>,
     <<"a", "n", "a", "l", "y", "z", "e">>,
     <<"c", "h", "e", "c", "k">>,
     <<"U+770B">>,
     <<"U+89E3", "U+91CA">>,
     <<"e", "x", "p", "l", "a", "i", "n">>,
     <<"f", "i", "x">>,
     <<"s", "o", "l", "v", "e">>,
     <<"U+89E3", "U+51B3">>,
     <<"U+4EC0", "U+4E48", "U+610F", "U+601D">>,
     <<"m", "e", "a", "n">>}

\* strong_phrases = ['read terminal', 'U+8BFB U+53D6 U+7EC8 U+7AEF', 'output above']
strong_phrases ==
    {<<"r", "e", "a", "d", " ", "t", "e", "r", "m", "i", "n", "a", "l">>,
     <<"U+8BFB", "U+53D6", "U+7EC8", "U+7AEF">>,
     <<"o", "u", "t", "p", "u", "t", " ", "a", "b", "o", "v", "e">>}

\* as should_read_terminal, rule 1 asking for an action keyword
should_read_terminal_ActionOnly(user_input) ==
    \E user_input_lower \in {lower(user_input)} :
    LET has_error_kw == any_in(error_keywords, user_input_lower)
        has_target_kw == any_in(target_keywords, user_input_lower)
        has_pos_kw == any_in(position_keywords, user_input_lower)
        has_action_kw == any_in(action_keywords, user_input_lower)
    IN
    IF has_error_kw /\ has_action_kw THEN TRUE
    ELSE IF has_pos_kw /\ has_target_kw THEN TRUE
    ELSE IF any_in(strong_phrases, user_input_lower) THEN TRUE
    ELSE FALSE

\* The if / elif / elif chain that sets should_read_terminal
\* (user_input_lower is bound by \E so that it is computed once)
should_read_terminal(user_input) ==
    \E user_input_lower \in {lower(user_input)} :
    LET has_error_kw == any_in(error_keywords, user_input_lower)
        has_target_kw == any_in(target_keywords, user_input_lower)
        has_pos_kw == any_in(position_keywords, user_input_lower)
        has_action_kw == any_in(action_keywords, user_input_lower)
    IN
    IF has_error_kw /\ (has_action_kw \/ has_pos_kw) THEN TRUE
    ELSE IF has_pos_kw /\ has_target_kw THEN TRUE
    ELSE IF any_in(strong_phrases, user_input_lower) THEN TRUE
    ELSE FALSE

\* What TerminalReader.get_content() gives: text, or None where the terminal
\* is not supported or the read fails
ReaderOutcomes == {"content", "None"}

NotRead == [should_read_terminal |-> FALSE, reader_called |-> FALSE,
            terminal_context |-> "not_run"]

\* if should_read_terminal: content = TerminalReader.get_content(); ...
read_terminal(user_input, reader) ==
    LET should == \E text \in {user_input} : should_read_terminal(text) IN
    [should_read_terminal |-> should,
     reader_called |-> should,
     terminal_context |-> IF should THEN reader ELSE "None"]

Questions == SeqsUpTo(QuestionWords, MaxWords) \ {<<>>}

NoCli == [argv |-> <<>>, sid |-> "none", flow |-> "none", exit |-> "none"]

NotAsked == [stage |-> "none"]

MainIdleInit ==
    /\ cli = NoCli
    /\ userInput = <<>>
    /\ terminal = NotRead
    /\ ask = NotAsked

TriggerInit ==
    /\ cli = NoCli
    /\ userInput \in Questions
    /\ terminal = NotRead
    /\ ask = NotAsked

\* lines 781-821 of main on the question userInput
ReadTerminal ==
    /\ terminal = NotRead
    /\ \E reader \in ReaderOutcomes :
           terminal' = read_terminal(join(userInput), reader)
    /\ UNCHANGED <<cli, userInput, ask>>
    /\ UNCHANGED <<histVars, ppVars, rtVars, skillVars>>

-----------------------------------------------------------------------------
(* main: dispatch on the first argument, and the flows it starts *)

\* questions of a session are told apart by a serial number: MaxTurns is the
\* largest one asked
MaxTurns == 12

\* LLMI_SESSION_ID: not set, or the session the shell runs in
MainSessions == {"none", "s1"}

\* Each run of main is a process of its own: what the run before left in
\* memory (the last calls, their results) is gone.
HistFresh ==
    /\ lastOp' = [op |-> "none", sid |-> "none", out |-> "none"]
    /\ lastSave' = NoSave
    /\ ret' = NoRet
    /\ raised' = FALSE

SkillFresh ==
    /\ skOp' = SkOp("none", "NONE", "none", NoSource, "none", <<>>, NotCalled)
    /\ skRet' = "none"

AskFresh ==
    /\ userInput' = <<>>
    /\ terminal' = NotRead
    /\ ask' = NotAsked

\* The branch main takes on args = sys.argv[1:]
Flow(st, args) ==
    IF Len(args) = 0 THEN "usage"
    ELSE IF Len(args) = 1 /\ args[1] \in {"-h", "--help"} THEN "help"
    ELSE IF args[1] = "ask" THEN (IF Len(args) < 2 THEN "usage" ELSE "question")
    ELSE IF args[1] = "install" THEN (IF Len(args) < 2 THEN "usage" ELSE "install")
    ELSE IF args[1] = "list" THEN "list"
    ELSE IF args[1] = "reset" THEN "reset"
    ELSE IF load_skill(st, args[1]).found THEN "skill"
    ELSE "question"

\* The arguments the question is made of: all of them, or those after 'ask'
question_args(args) == IF args[1] = "ask" THEN Tail(args) ELSE args

HasFileOption(args) == \E i \in 1 .. Len(args) : args[i] = "--file"

file_option_index(args) ==
    CHOOSE i \in 1 .. Len(args) :
        args[i] = "--file" /\ \A j \in 1 .. (i - 1) : args[j] # "--file"

\* file_path: the argument after the first '--file', None without one
file_path(args) ==
    IF HasFileOption(args) /\ file_option_index(args) + 1 <= Len(args)
    THEN args[file_option_index(args) + 1]
    ELSE "None"

\* user_input as a list of words: the joined arguments with the text
\* '--file <file_path>' taken out
user_input_words(args) ==
    LET qa == question_args(args) IN
    IF file_path(args) = "None" THEN qa
    ELSE LET i == file_option_index(qa) IN
         SubSeq(qa, 1, i - 1) \o SubSeq(qa, i + 2, Len(qa))

\* read_file_content: {"error": ...} or the file's record
read_file_content(path) ==
    LET abs_path == resolve(path)
        f == Fs(path)
        failed == [error |-> TRUE, info |-> StrArg(path)]
    IN
    IF f.kind = "missing" THEN failed
    ELSE IF f.kind # "file" THEN failed
    ELSE IF st_size(f) > SizeLimit THEN failed
    ELSE IF ~f.readable THEN failed
    ELSE IF Utf8Valid(f.head)
         THEN [error |-> FALSE, info |-> file_info(abs_path, f, read_text(f), FALSE)]
         ELSE [error |-> FALSE, info |-> file_info(abs_path, f, read_base64(f), TRUE)]

\* The serial number of the next question of a session: one more than the
\* largest number its history holds
Serial(history) ==
    IF history = <<>> THEN 1
    ELSE 1 + (CHOOSE m \in {history[i].content : i \in 1 .. Len(history)} :
                 \A i \in 1 .. Len(history) : history[i].content <= m)

\* create_structured_prompt: [system, user]; the system prompt carries the
\* attachment and the terminal text, the user message the question
create_structured_prompt(n, file_name, terminal_context) ==
    <<[role |-> "system",
       content |-> [file |-> file_name, terminal |-> terminal_context]],
      [role |-> "user", content |-> n]>>

\* final_messages = [base_messages[0]] + history + [base_messages[1]]
final_messages(base_messages, history) ==
    <<base_messages[1]>> \o history \o <<base_messages[2]>>

\* as new_history, the answer being stored before the question
new_history_AnswerFirst(history, user_message, llm_response) ==
    history \o <<[role |-> "assistant", content |-> llm_response], user_message>>

\* new_history = history + [base_messages[1], {"role": "assistant", ...}]
new_history(history, user_message, llm_response) ==
    history \o <<user_message, [role |-> "assistant", content |-> llm_response]>>

\* How far the question flow gets: sys.exit(1) on an attachment that cannot
\* be read, sys.exit(2) from ensure_llm_env, sys.exit(1) on a response that
\* starts with "Error", else the answer is printed
question_stage(file_error, env_ok, llm) ==
    IF file_error THEN "file_error"
    ELSE IF ~env_ok THEN "no_credentials"
    ELSE IF llm = "error" THEN "llm_error"
    ELSE "answered"

exit_code(stage) ==
    CASE stage = "file_error"     -> "1"
      [] stage = "no_credentials" -> "2"
      [] stage = "llm_error"      -> "1"
      [] stage = "answered"       -> "0"

\* What call_llm returns: the answer, or a text starting with "Error"
LlmOutcomes == {"answer", "error"}

\* The question flow of main (lines 759-884) on the arguments args; trm is
\* what the terminal-reading block gave on the question
QuestionFlow(args, sid, env_ok, llm, trm, io) ==
    \E words \in {user_input_words(args)},
       loaded \in {IF sid = "none" THEN NoRet ELSE load_history(files[sid])} :
    \E n \in {Serial(loaded.items)} :
    LET history == loaded.items
        path == file_path(args)
        file == IF path = "None" THEN [error |-> FALSE, info |-> StrArg("None")]
                ELSE read_file_content(path)
        base_messages == create_structured_prompt(
                             n, IF path = "None" THEN "None" ELSE path,
                             trm.terminal_context)
        stage == question_stage(file.error, env_ok, llm)
        sent == IF stage \in {"llm_error", "answered"}
                THEN final_messages(base_messages, history) ELSE <<>>
        new == new_history(history, base_messages[2], n)
        saving == stage = "answered" /\ sid # "none"
        breaks == saving /\ (loaded.kind = "dict" \/ RoleKeyError(new))
        saved == IF ~saving THEN "none"
                 ELSE IF breaks THEN "raised"
                 ELSE IF io = "ok" THEN "written" ELSE "write_failed"
    IN
    /\ userInput' = words
    /\ terminal' = trm
    /\ ask' = [stage |-> stage, n |-> n, loaded |-> loaded, sent |-> sent,
               saved |-> saved, file_path |-> path]
    /\ cli' = [argv |-> args, sid |-> sid, flow |-> "question",
               exit |-> IF breaks THEN "traceback" ELSE exit_code(stage)]
    /\ files' = IF saved \in {"written", "write_failed"}
                THEN [files EXCEPT ![sid] = FileAfterSave(files[sid], new, io)]
                ELSE files
    /\ lastOp' = IF saving /\ loaded.kind # "dict"
                 THEN [op |-> "save", sid |-> sid, out |-> "none"]
                 ELSE IF sid # "none"
                 THEN [op |-> "load", sid |-> sid, out |-> "none"]
                 ELSE [op |-> "none", sid |-> "none", out |-> "none"]
    /\ lastSave' = NoSave
    /\ ret' = loaded
    /\ raised' = breaks
    /\ SkillFresh
    /\ UNCHANGED <<store, sysPath, ppVars, rtVars>>

FileOptions == {<<>>, <<"--file", "hello.txt">>, <<"--file", "nofile.txt">>}

\* The argument lists main is started with
MainArgvs ==
    {<<>>, <<"-h">>, <<"ask">>, <<"install">>, <<"install", "url">>, <<"reset">>}
    \cup {<<"hello">> \o f : f \in FileOptions}
    \cup {pre \o <<"fix", "Error">> : pre \in {<<>>, <<"ask">>}}
    \cup {<<name>> : name \in Names}
    \cup {<<"translate", "hello.txt", "en">>}

\* main on a question.  What comes after the point where the run ends
\* cannot matter: one value stands for all of them there.
MainQuestion ==
    \E args \in MainArgvs :
        /\ Flow(store, args) = "question"
        /\ \E should \in {should_read_terminal(join(user_input_words(args)))} :
           \E reader \in ReaderOutcomes :
              /\ IF should THEN TRUE ELSE reader = "None"
              /\ \E trm \in {read_terminal(join(user_input_words(args)), reader)} :
                 \E sid \in MainSessions, env_ok \in BOOLEAN,
                    llm \in LlmOutcomes, io \in IoOutcomes :
                     /\ sid # "none"
                           => Serial(load_history(files[sid]).items) <= MaxTurns
                     /\ IF env_ok THEN TRUE ELSE llm = "answer"
                     /\ IF env_ok /\ llm = "answer" /\ sid # "none"
                        THEN TRUE ELSE io = "ok"
                     /\ QuestionFlow(args, sid, env_ok, llm, trm, io)

\* main on 'reset': clear_history of the session, if the shell has one
MainReset ==
    \E args \in MainArgvs, sid \in MainSessions, unlinked \in BOOLEAN :
        /\ Flow(store, args) = "reset"
        /\ IF sid # "none"
           THEN Clear(sid, unlinked)
           ELSE HistFresh /\ UNCHANGED files
        /\ cli' = [argv |-> args, sid |-> sid, flow |-> "reset", exit |-> "0"]
        /\ AskFresh
        /\ SkillFresh
        /\ UNCHANGED <<store, sysPath, ppVars, rtVars>>

\* The manifests 'llmi install <url>' is run on here: a skill with a handler
\* and one whose name is a word main itself understands
MainSources ==
    {Source("file", "ok", Body("object", m), "ok", "ok") :
        m \in {Manifest("translate", "d", "1.0", "run.py", TRUE, TranslateParams),
               Manifest("list", "d", "1.0", "run.py", FALSE, <<>>)}}
    \cup {Source("http", "error", Body("garbage", NoManifest), "ok", "ok")}

\* main on 'install <url>': sys.exit(0 if success else 1)
MainInstall ==
    \E args \in MainArgvs, src \in MainSources :
        /\ Flow(store, args) = "install"
        /\ Install(src)
        /\ cli' = [argv |-> args, sid |-> "none", flow |-> "install",
                   exit |-> IF skRet' = "success" THEN "0" ELSE "1"]
        /\ AskFresh
        /\ HistFresh
        /\ UNCHANGED <<files, ppVars, rtVars>>

\* main on 'list', on '-h' and on too few arguments: nothing but printing
MainPrint ==
    \E args \in MainArgvs :
        /\ Flow(store, args) \in {"list", "help", "usage"}
        /\ cli' = [argv |-> args, sid |-> "none", flow |-> Flow(store, args),
                   exit |-> IF Flow(store, args) = "usage" THEN "1" ELSE "0"]
        /\ AskFresh
        /\ HistFresh
        /\ SkillFresh
        /\ UNCHANGED <<files, store, sysPath, ppVars, rtVars>>

\* skill_args = args[1:]
skill_args(args) == [i \in 1 .. (Len(args) - 1) |-> StrArg(args[i + 1])]

\* main on the name of an installed skill: execute_skill, then
\* sys.exit(0 if success else 1); an exit of the handler ends main itself
MainSkill ==
    \E args \in MainArgvs, beh \in Behaviours :
        /\ Flow(store, args) = "skill"
        /\ IF HandlerLoaded(store, args[1]) THEN TRUE ELSE beh = "ret_true"
        /\ Execute(args[1], skill_args(args), beh)
        /\ cli' = [argv |-> args, sid |-> "none", flow |-> "skill",
                   exit |-> CASE skRet' = "success" -> "0"
                              [] skRet' = "failure" -> "1"
                              [] OTHER -> "handler"]
        /\ AskFresh
        /\ HistFresh
        /\ UNCHANGED <<files, ppVars, rtVars>>

\* save_history called on lists that hold system entries
SystemPatterns == {"sys_first", "sys_last", "sys_third"}

SaveSystemAny ==
    \E pat \in SystemPatterns, n \in Lengths :
        /\ Save("s1", pat, n, "ok")
        /\ AskFresh
        /\ cli' = NoCli
        /\ UNCHANGED <<ppVars, rtVars, skillVars>>

-----------------------------------------------------------------------------
(* llmi_runtime: the runtimes skills call, and the environment checks *)

\* The variables of os.environ that llmi_runtime reads
EnvVars == {"LLM_API_KEY", "LLM_BASE_URL", "LLM_MODEL_NAME",
            "LLM_VISION_API_KEY", "LLM_VISION_BASE_URL",
            "LLM_VISION_MODEL_NAME", "LLM_VISION_MODEL"}

\* The value of a variable: "NONE" when it is not set (os.environ.get gives
\* None), "" when it is set to the empty string, else a text that names the
\* variable it came from
EnvValues(var) ==
    CASE var = "LLM_API_KEY"           -> {"NONE", "", "key"}
      [] var = "LLM_BASE_URL"          -> {"NONE", "", "url"}
      [] var = "LLM_MODEL_NAME"        -> {"NONE", "model"}
      [] var = "LLM_VISION_API_KEY"    -> {"NONE", "", "vkey"}
      [] var = "LLM_VISION_BASE_URL"   -> {"NONE", "", "vurl"}
      [] var = "LLM_VISION_MODEL_NAME" -> {"NONE", "vmodel"}
      [] var = "LLM_VISION_MODEL"      -> {"NONE", "vmodel2"}

Envs == {e \in [EnvVars -> {"NONE", "", "key", "url", "model", "vkey", "vurl",
                            "vmodel", "vmodel2"}] :
            \A var \in EnvVars : e[var] \in EnvValues(var)}

NoEnv == [var \in EnvVars |-> "NONE"]

\* The truth value of a str or None
Truthy(v) == v # "NONE" /\ v # ""

\* a or b
Or(a, b) == IF Truthy(a) THEN a ELSE b

\* os.environ.get(var, default)
GetDefault(e, var, default) == IF e[var] = "NONE" THEN default ELSE e[var]

\* The outcome of a constructor: the object, or the ValueError it raised
Runtime(api_key, base_url, model_name) ==
    [kind |-> "runtime", api_key |-> api_key, base_url |-> base_url,
     model_name |-> model_name]

ValueError == [kind |-> "ValueError", api_key |-> "NONE", base_url |-> "NONE",
               model_name |-> "NONE"]

None == [kind |-> "None", api_key |-> "NONE", base_url |-> "NONE",
         model_name |-> "NONE"]

\* LLMMRuntime.__init__
LLMMRuntime(e) ==
    LET api_key == e["LLM_API_KEY"]
        base_url == e["LLM_BASE_URL"]
        model_name == GetDefault(e, "LLM_MODEL_NAME", "doubao-seed-1.6-flash")
    IN IF ~Truthy(api_key) \/ ~Truthy(base_url)
       THEN ValueError
       ELSE Runtime(api_key, base_url, model_name)

\* VisionLLMRuntime.__init__: the vision variables, else the general ones
VisionLLMRuntime(e) ==
    LET api_key == Or(e["LLM_VISION_API_KEY"], e["LLM_API_KEY"])
        base_url == Or(e["LLM_VISION_BASE_URL"], e["LLM_BASE_URL"])
        model_name == Or(e["LLM_VISION_MODEL_NAME"],
                         Or(e["LLM_VISION_MODEL"],
                            GetDefault(e, "LLM_MODEL_NAME", "gemini-3-pro-image")))
    IN IF ~Truthy(api_key) \/ ~Truthy(base_url)
       THEN ValueError
       ELSE Runtime(api_key, base_url, model_name)

\* required_vars = ['LLM_API_KEY', 'LLM_BASE_URL']
required_vars == {"LLM_API_KEY", "LLM_BASE_URL"}

\* check_llm_env: all(os.environ.get(var) for var in required_vars)
check_llm_env(e) == \A var \in required_vars : Truthy(e[var])

\* check_vision_llm_env: has_vision or has_general
check_vision_llm_env(e) ==
    LET has_vision == Truthy(e["LLM_VISION_API_KEY"]) /\ Truthy(e["LLM_VISION_BASE_URL"])
        has_general == Truthy(e["LLM_API_KEY"]) /\ Truthy(e["LLM_BASE_URL"])
    IN has_vision \/ has_general

\* The record of a call: constructs tells whether the constructor was run,
\* out is the value returned (or the exception raised)
RtOp(op, constructs, out) == [op |-> op, constructs |-> constructs, out |-> out]

\* The skill has not called llmi_runtime; no credential variable is set
RuntimeIdleInit ==
    /\ env = NoEnv
    /\ llm_runtime = None
    /\ vision_llm_runtime = None
    /\ rtOp = RtOp("none", FALSE, None)

\* llmi_runtime was imported under some environment
RuntimeInit ==
    /\ env \in Envs
    /\ llm_runtime = None
    /\ vision_llm_runtime = None
    /\ rtOp = RtOp("none", FALSE, None)

\* What get_llm_runtime / get_vision_llm_runtime do with the global g and
\* the outcome made of the constructor: the global after the call and the
\* value returned or exception raised
get_runtime(g, made) ==
    IF g = None
    THEN [global |-> IF made.kind = "runtime" THEN made ELSE None,
          constructs |-> TRUE, out |-> made]
    ELSE [global |-> g, constructs |-> FALSE, out |-> g]

RuntimeOnly == UNCHANGED <<histVars, ppVars, skillVars, mainVars>>

\* get_llm_runtime()
GetLlmRuntime ==
    \E r \in {get_runtime(llm_runtime, LLMMRuntime(env))} :
        /\ llm_runtime' = r.global
        /\ rtOp' = RtOp("get_llm_runtime", r.constructs, r.out)
        /\ UNCHANGED <<env, vision_llm_runtime>>
        /\ RuntimeOnly

\* get_vision_llm_runtime()
GetVisionLlmRuntime ==
    \E r \in {get_runtime(vision_llm_runtime, VisionLLMRuntime(env))} :
        /\ vision_llm_runtime' = r.global
        /\ rtOp' = RtOp("get_vision_llm_runtime", r.constructs, r.out)
        /\ UNCHANGED <<env, llm_runtime>>
        /\ RuntimeOnly

\* check_llm_env()
CheckLlmEnv ==
    /\ rtOp' = RtOp("check_llm_env", FALSE, check_llm_env(env))
    /\ UNCHANGED <<env, llm_runtime, vision_llm_runtime>>
    /\ RuntimeOnly

\* check_vision_llm_env()
CheckVisionLlmEnv ==
    /\ rtOp' = RtOp("check_vision_llm_env", FALSE, check_vision_llm_env(env))
    /\ UNCHANGED <<env, llm_runtime, vision_llm_runtime>>
    /\ RuntimeOnly

-----------------------------------------------------------------------------
(* Specifications.  The session files, the skills root and the arguments    *)
(* of the preprocessor share no state: each component is checked under its *)
(* own specification, the other components standing still.                 *)

Init == HistInit /\ PpInit /\ SkillInit /\ TriggerInit /\ RuntimeInit

Next ==
    \/ SaveAny \/ LoadAny \/ ClearAny \/ TamperAny
    \/ Preprocess
    \/ InstallAny \/ ExecuteAny
    \/ ReadTerminal
    \/ MainQuestion \/ MainReset \/ MainInstall \/ MainPrint \/ MainSkill
    \/ SaveSystemAny
    \/ GetLlmRuntime \/ GetVisionLlmRuntime \/ CheckLlmEnv \/ CheckVisionLlmEnv

Spec == Init /\ [][Next]_vars

\* The session context manager alone
InitHistory == HistInit /\ PpIdleInit /\ SkillInit /\ MainIdleInit /\ RuntimeIdleInit

NextHistory == SaveAny \/ LoadAny \/ ClearAny

SpecHistory == InitHistory /\ [][NextHistory]_vars

\* ... and with session files that something else wrote
NextHistoryEnv == SaveAny \/ LoadAny \/ ClearAny \/ TamperAny

SpecHistoryEnv == InitHistory /\ [][NextHistoryEnv]_vars

\* preprocess_skill_args applied to each manifest and argument list
InitPreprocess == HistInit /\ PpInit /\ SkillInit /\ MainIdleInit /\ RuntimeIdleInit

NextPreprocess == Preprocess

SpecPreprocess == InitPreprocess /\ [][NextPreprocess]_vars

\* The skill store under installs and executions
InitSkills == HistInit /\ PpIdleInit /\ SkillInit /\ MainIdleInit /\ RuntimeIdleInit

NextSkills == InstallAny \/ ExecuteAny

SpecSkills == InitSkills /\ [][NextSkills]_vars

\* The terminal-reading block of main applied to each question
InitTrigger == HistInit /\ PpIdleInit /\ SkillInit /\ TriggerInit /\ RuntimeIdleInit

NextTrigger == ReadTerminal

SpecTrigger == InitTrigger /\ [][NextTrigger]_vars

\* Runs of main, one after the other
InitMain == HistInit /\ PpIdleInit /\ SkillInit /\ MainIdleInit /\ RuntimeIdleInit

NextMain == MainQuestion \/ MainReset \/ MainInstall \/ MainPrint \/ MainSkill

SpecMain == InitMain /\ [][NextMain]_vars

\* The question flow and the reset of a session whose file also receives
\* lists with system entries
InitSession == HistInit /\ PpIdleInit /\ SkillInit /\ MainIdleInit /\ RuntimeIdleInit

NextSession == MainQuestion \/ MainReset \/ SaveSystemAny

SpecSession == InitSession /\ [][NextSession]_vars

\* llmi_runtime under each environment
InitRuntime == HistInit /\ PpIdleInit /\ SkillInit /\ MainIdleInit /\ RuntimeInit

NextRuntime == GetLlmRuntime \/ GetVisionLlmRuntime \/ CheckLlmEnv \/ CheckVisionLlmEnv

SpecRuntime == InitRuntime /\ [][NextRuntime]_vars

-----------------------------------------------------------------------------
(* Properties of the session context manager *)

\* C1: after any sequence of save and clear calls, the history file of every
\* session holds at most max_history (20) entries.
C1_HistoryBounded == \A s \in Sessions : Len(files[s].items) <= max_history

\* a list longer than max_history was saved and the file holds exactly
\* max_history entries
C1_Witness ==
    /\ lastOp.op = "save"
    /\ lastSave.status = "written"
    /\ lastSave.n > max_history
    /\ files[lastSave.sid].kind = "array"
    /\ Len(files[lastSave.sid].items) = max_history

\* The positions of the user/assistant entries of a list, and the list of
\* its last min(max_history, count) such entries in their original order.
KeptPositions(ms) == {i \in 1 .. Len(ms) : ms[i].role \in KeptRoles}

NthKept(ms, j) ==
    CHOOSE i \in KeptPositions(ms) :
        Cardinality({x \in KeptPositions(ms) : x <= i}) = j

LastKept(ms) ==
    LET count == Cardinality(KeptPositions(ms))
        k == IF count < max_history THEN count ELSE max_history
    IN [j \in 1 .. k |-> ms[NthKept(ms, count - k + j)]]

\* C2: a load that follows a save of the same session (whose file was
\* written) returns the last min(20, count) user/assistant entries of the
\* saved list, in order; the role filter comes before the truncation.
C2_RoundTrip ==
    (lastOp.op = "load" /\ lastSave.sid = lastOp.sid /\ lastSave.status = "written")
        => ret = [kind |-> "list",
                  items |-> LastKept(Messages(lastSave.pat, lastSave.n))]

\* a list of 22 entries ending in a system entry was saved and loaded: 21
\* user/assistant entries compete for the 20 slots
C2_Witness ==
    /\ lastOp.op = "load"
    /\ lastSave.sid = lastOp.sid
    /\ lastSave.status = "written"
    /\ lastSave.pat = "sys_last"
    /\ lastSave.n = max_history + 2
    /\ Len(ret.items) = max_history
    /\ ret.items[1].content = 2

\* C3: load returns the empty sequence, and does not raise, whenever the
\* session file is missing or holds anything other than a stored sequence
\* of message records.
C3_LoadEmptyOnMissingOrCorrupt ==
    (lastOp.op = "load" /\ files[lastOp.sid].kind \in {"absent", "garbage", "object"})
        => (ret = EmptyList /\ ~raised)

\* C14: save_history never raises to its caller, whatever the list and
\* whether or not the write fails; after a failed write a load observes the
\* history persisted before or the empty sequence.
C14_BestEffortSave ==
    [][lastOp'.op = "save"
         => /\ ~raised'
            /\ lastSave'.status = "write_failed"
                 => load_history(files'[lastOp'.sid])
                        \in {load_history(files[lastOp'.sid]), EmptyList}]_vars

\* C15: clear_history removes the session's file if there is one and does
\* nothing, without error, if there is none; it leaves the files of the other
\* sessions alone; from then on only a save of that session brings a file
\* back, and a load without a file returns the empty sequence.
C15_Clear ==
    [][/\ (lastOp'.op = "clear" /\ lastOp'.out # "unlink_failed")
           => /\ ~raised'
              /\ files'[lastOp'.sid] = NoFile
              /\ lastOp'.out = "absent" => files' = files
              /\ \A s \in Sessions \ {lastOp'.sid} : files'[s] = files[s]
       /\ \A s \in Sessions :
              (files[s] = NoFile /\ files'[s] # NoFile)
                  => (lastOp'.op = "save" /\ lastOp'.sid = s)
       /\ (lastOp'.op = "load" /\ files[lastOp'.sid] = NoFile)
              => (ret' = EmptyList /\ ~raised')]_vars

\* the file of one session was removed while the other session keeps a
\* history of max_history entries
C15_Witness ==
    /\ lastOp.op = "clear"
    /\ lastOp.out = "removed"
    /\ files[lastOp.sid] = NoFile
    /\ \E s \in Sessions \ {lastOp.sid} :
           files[s].kind = "array" /\ Len(files[s].items) = max_history

\* C16: saving a list, loading it and saving what the load returned leaves
\* the file as the first save wrote it:
\* the role filter followed by the truncation, applied to its own result,
\* changes nothing.
C16_ResaveIdempotent ==
    /\ (lastOp.op = "load" /\ lastSave.sid = lastOp.sid /\ lastSave.status = "written")
          => /\ ret.kind = "list"
             /\ ~RoleKeyError(ret.items)
             /\ FileAfterSave(files[lastOp.sid], ret.items, "ok") = files[lastOp.sid]
    /\ (lastSave.status = "written")
          => LET h == Messages(lastSave.pat, lastSave.n) IN
             history_to_save(history_to_save(h)) = history_to_save(h)

\* a list of 22 entries with system entries among them was saved and
\* loaded: 15 entries came back
C16_Witness ==
    /\ lastOp.op = "load"
    /\ lastSave.sid = lastOp.sid
    /\ lastSave.status = "written"
    /\ lastSave.pat = "sys_third"
    /\ lastSave.n = max_history + 2
    /\ ret.kind = "list"
    /\ Len(ret.items) = 15

-----------------------------------------------------------------------------
(* Properties of the skill installer and store *)

\* The manifest an install was given lacks a required field.  A JSON
\* document that is no object has none of the fields.
LacksRequiredField(body) ==
    \/ body.kind \in {"array", "number", "string"}
    \/ /\ body.kind = "object"
       /\ (body.m.name = "NONE" \/ body.m.description = "NONE" \/ body.m.version = "NONE")

RefusedInput(op) ==
    /\ op.op = "install"
    /\ \/ op.src.fetch # "ok"
       \/ op.src.body.kind = "garbage"
       \/ LacksRequiredField(op.src.body)

\* C4: an install whose manifest cannot be fetched, is not valid JSON or
\* lacks name, description or version returns failure and leaves the whole
\* skills root as it was.
C4_RefusedInstallWritesNothing ==
    [][RefusedInput(skOp') => (skRet' = "failure" /\ store' = store)]_vars

\* a manifest without one of the required fields was refused while both
\* skills were installed
C4_Witness ==
    /\ skOp.op = "install"
    /\ skOp.src.fetch = "ok"
    /\ skOp.src.body.kind = "object"
    /\ skOp.src.body.m.name = "translate"
    /\ skOp.src.body.m.version = "NONE"
    /\ skRet = "failure"
    /\ \A n \in {"translate", "genimage"} : store[n].config.kind = "object"

\* Steps 1-5 of an install completed: the manifest was fetched, parsed,
\* accepted and written.
ManifestWritten(op) ==
    /\ op.op = "install"
    /\ op.src.fetch = "ok"
    /\ op.src.body.kind = "object"
    /\ ~LacksRequiredField(op.src.body)
    /\ op.src.write = "ok"

\* C5: once the manifest is written, install returns success even when the
\* handler asset cannot be fetched, for a file source and an http source.
C5_HandlerFailureIsWarning ==
    (ManifestWritten(skOp) /\ skOp.src.body.m.handler # "NONE" /\ skOp.src.asset # "ok")
        => skRet = "success"

\* C6: after an install that returned success, load_skill of the name
\* returns the manifest just installed, whether or not the handler was
\* fetched.
C6_InstalledIsResolvable ==
    (skOp.op = "install" /\ skRet = "success")
        => load_skill(store, skOp.src.body.m.name) = [found |-> TRUE, m |-> skOp.src.body.m]

\* version 2.0 was installed successfully over another manifest's handler,
\* its own handler asset not being fetched
C6_Witness ==
    /\ skOp.op = "install"
    /\ skRet = "success"
    /\ skOp.src.asset # "ok"
    /\ skOp.src.body.m.name = "translate"
    /\ skOp.src.body.m.version = "2.0"
    /\ skOp.src.body.m.handler = "alt.py"
    /\ store["translate"].handlers["alt.py"] = "none"
    /\ store["translate"].handlers["run.py"] = "1.0"
    /\ load_skill(store, "translate").found

-----------------------------------------------------------------------------
(* Properties of the argument preprocessor *)

DeclaresFileParam(config) ==
    /\ config.has_parameters
    /\ \E i \in 1 .. Len(config.parameters) : config.parameters[i].type = "file"

\* every file parameter has the 'name' the data model gives it
FileParamsNamed(config) ==
    \A i \in 1 .. Len(config.parameters) :
        config.parameters[i].type = "file" => config.parameters[i].named

\* the path is missing, no regular file, larger than 10 MiB or unreadable
UnusablePath(path) ==
    \/ Fs(path).kind = "missing"
    \/ Fs(path).kind = "dir"
    \/ Len(Fs(path).head) + Fs(path).pad > 10 * 1024 * 1024
    \/ ~Fs(path).readable

OneFileParam(config) ==
    /\ config.has_parameters
    /\ Cardinality({i \in 1 .. Len(config.parameters) : config.parameters[i].type = "file"}) = 1

ReadableText(path) ==
    /\ Fs(path).kind = "file"
    /\ Fs(path).readable
    /\ \A i \in 1 .. Len(Fs(path).head) : Fs(path).head[i] # "xFF"
    /\ Len(Fs(path).head) + Fs(path).pad <= 10 * 1024 * 1024

\* C8: with one file parameter and a first argument naming a readable UTF-8
\* text file of at most 10 MiB, preprocess returns a list of the same
\* length whose element 0 is a record with the file's exact text, its byte
\* size and is_binary = false, the other elements being the original ones.
C8_TextFileRecord ==
    (/\ ppOut # NotRun
     /\ OneFileParam(ppConfig)
     /\ FileParamsNamed(ppConfig)
     /\ Len(ppArgs) > 0
     /\ ReadableText(ppArgs[1].s))
        => /\ ~ppOut.exc
           /\ Len(ppOut.val) = Len(ppArgs)
           /\ ppOut.val[1].t = "file_info"
           /\ ppOut.val[1].content = [enc |-> "text",
                                      head |-> Fs(ppArgs[1].s).head,
                                      pad |-> Fs(ppArgs[1].s).pad]
           /\ ppOut.val[1].size = Len(Fs(ppArgs[1].s).head) + Fs(ppArgs[1].s).pad
           /\ ppOut.val[1].is_binary = FALSE
           /\ \A i \in 2 .. Len(ppArgs) : ppOut.val[i] = ppArgs[i]

\* C9 as stated: an argument is replaced by a file record only if the
\* parameter at its position is of type file, and an argument at the
\* position of a non-file parameter is passed through unchanged.
C9_OnlyFileBoundArgs ==
    (ppOut # NotRun /\ ~ppOut.exc)
        => \A i \in 1 .. Len(ppOut.val) :
              /\ ppOut.val[i].t = "file_info"
                    => /\ i <= Len(ppConfig.parameters)
                       /\ ppConfig.parameters[i].type = "file"
              /\ (i <= Len(ppConfig.parameters) /\ ppConfig.parameters[i].type # "file")
                    => ppOut.val[i] = ppArgs[i]

\* C9 as amended: only argument 0 is ever replaced, and only when the
\* manifest declares a file parameter at some position; every other
\* argument is passed through unchanged.
C9_OnlyFirstArgReplaced ==
    (ppOut # NotRun /\ ~ppOut.exc)
        => /\ Len(ppOut.val) = Len(ppArgs)
           /\ \A i \in 1 .. Len(ppArgs) :
                 ppOut.val[i] # ppArgs[i]
                    => /\ i = 1
                       /\ DeclaresFileParam(ppConfig)
                       /\ ppOut.val[i].t = "file_info"

\* the file parameter is declared second; argument 0 was replaced and
\* argument 1, also a path, was not
C9_Witness ==
    /\ ppOut # NotRun
    /\ ~ppOut.exc
    /\ Len(ppConfig.parameters) = 2
    /\ ppConfig.parameters[1].type = "string"
    /\ ppConfig.parameters[2].type = "file"
    /\ Len(ppArgs) = 2
    /\ ppArgs[2] = StrArg("hello.txt")
    /\ ppOut.val[1].t = "file_info"
    /\ ppOut.val[2] = StrArg("hello.txt")

-----------------------------------------------------------------------------
(* Properties of the skill executor *)

\* The handler raised while it was loaded or while main(args) ran.
HandlerRaised(op) ==
    /\ op.op = "execute"
    /\ op.cls = "handler"
    /\ op.beh \in {"import_error", "raise_exception", "raise_systemexit"}

\* C11: whatever the handler raises while it is loaded or while main runs,
\* an exception or an exit request, execute_skill returns failure to its
\* caller and nothing propagates out of it.
C11_ErrorBoundary == HandlerRaised(skOp) => skRet = "failure"

\* C12: for every installed manifest without a handler field, with or
\* without a parameters sequence of any content, execute_skill returns
\* success for every argument list.
C12_NoHandlerSucceeds ==
    (skOp.op = "execute" /\ load_skill(store, skOp.name).found
        /\ load_skill(store, skOp.name).m.handler = "NONE")
        => skRet = "success"

\* C19: when the manifest names a handler, execute_skill fails if the
\* handler file is missing (a failure other than 'skill not found') or the
\* module has no main; otherwise main is called with the preprocessed
\* arguments, a boolean result is returned as it is and any other result is
\* success.
C19_ResultMapping ==
    LET config == load_skill(store, skOp.name)
        m == config.m
    IN
    (skOp.op = "execute" /\ config.found /\ m.handler # "NONE" /\ FileParamsNamed(m))
        => IF store[skOp.name].handlers[m.handler] = "none"
           THEN skRet = "failure" /\ skOp.cls = "handler_missing"
           ELSE /\ skOp.cls = "handler"
                /\ skOp.beh = "no_main"
                      => (skRet = "failure" /\ skOp.margs = NotCalled)
                /\ skOp.beh \in {"ret_true", "ret_false", "ret_other"}
                      => skOp.margs = preprocess_skill_args(m, skOp.args).val
                /\ skOp.beh = "ret_true" => skRet = "success"
                /\ skOp.beh = "ret_false" => skRet = "failure"
                /\ skOp.beh = "ret_other" => skRet = "success"

\* main was given the file record of hello.txt and returned a value that
\* is no boolean
C19_Witness ==
    /\ skOp.op = "execute"
    /\ skOp.cls = "handler"
    /\ skOp.beh = "ret_other"
    /\ skOp.args = <<StrArg("hello.txt"), StrArg("en")>>
    /\ skOp.margs[1].t = "file_info"
    /\ skOp.margs[2] = StrArg("en")
    /\ skRet = "success"

\* C10: when execute_skill has loaded a handler, the directory it put on
\* sys.path is off it again however the handler ended (return, no main,
\* import failure, exception, exit): sys.path is as it was found.
C10_PathRestored ==
    (skOp.op = "execute" /\ skOp.cls = "handler") => sysPath = BasePath

\* the handler of a skill whose directory is not otherwise on the path
\* raised an exception, and the path holds no entry for that directory
C10_Witness ==
    /\ skOp.op = "execute"
    /\ skOp.cls = "handler"
    /\ skOp.name = "translate"
    /\ skOp.beh = "raise_exception"
    /\ \A i \in 1 .. Len(sysPath) : sysPath[i] # skill_dir("translate")

-----------------------------------------------------------------------------
(* Properties of the question flow *)

\* Two characters are the same up to the case of a letter.
SameLetter(a, b) ==
    \/ a = b
    \/ \E j \in DOMAIN UpperCase :
          {a, b} = {UpperCase[j], LowerCase[j]}

\* A keyword of the set occurs in the text, the case of letters ignored.
Present(keywords, text) ==
    \E k \in keywords : \E i \in 0 .. (Len(text) - Len(k)) :
        \A j \in 1 .. Len(k) : SameLetter(text[i + j], k[j])

\* C13: with E, T, P, A the presence of an error, target, position and
\* action keyword in the question and S that of a strong phrase, the terminal
\* is captured iff (E and (A or P)) or (P and T) or S; the reader is called
\* only then, and a question without keyword or phrase is never captured.
C13_TriggerRule ==
    terminal # NotRead
        => LET q == join(userInput)
               E == Present(error_keywords, q)
               T == Present(target_keywords, q)
               P == Present(position_keywords, q)
               A == Present(action_keywords, q)
               S == Present(strong_phrases, q)
           IN /\ terminal.should_read_terminal <=> ((E /\ (A \/ P)) \/ (P /\ T) \/ S)
              /\ terminal.reader_called <=> terminal.should_read_terminal
              /\ terminal.terminal_context = "content" => terminal.should_read_terminal
              /\ (~E /\ ~T /\ ~P /\ ~A /\ ~S) => ~terminal.reader_called

\* "gangcai Error": an error keyword in capitals and a position keyword,
\* no action keyword; the terminal was read
C13_Witness ==
    /\ userInput = <<"gangcai", "Error">>
    /\ terminal.should_read_terminal
    /\ terminal.reader_called
    /\ terminal.terminal_context = "content"

\* The number of system entries of a message list
SystemCount(ms) == Cardinality({i \in 1 .. Len(ms) : ms[i].role = "system"})

\* C17: no system entry is ever persisted: whatever lists are saved, every
\* entry of every session file has role user or assistant; the question
\* flow sends one system message, built in this run, first, then the loaded
\* history, then the current user message.
C17_SystemNeverPersisted ==
    /\ \A s \in Sessions : \A i \in 1 .. Len(files[s].items) :
           files[s].items[i].role \in {"user", "assistant"}
    /\ (cli.flow = "question" /\ ask.sent # <<>>)
          => /\ Len(ask.sent) = Len(ask.loaded.items) + 2
             /\ ask.sent[1] = [role |-> "system",
                               content |-> [file |-> ask.file_path,
                                            terminal |-> terminal.terminal_context]]
             /\ \A i \in 1 .. Len(ask.loaded.items) :
                    ask.sent[i + 1] = ask.loaded.items[i]
             /\ ask.sent[Len(ask.sent)] = [role |-> "user", content |-> ask.n]
             /\ SystemCount(ask.sent) = 1

\* the list [system, assistant] was saved, and a question of the same
\* session was answered on top of the one entry kept of it
C17_Witness ==
    /\ cli.flow = "question"
    /\ ask.stage = "answered"
    /\ ask.saved = "written"
    /\ ask.loaded.items = <<[role |-> "assistant", content |-> 2]>>
    /\ Len(ask.sent) = 3
    /\ terminal.terminal_context = "content"
    /\ Len(files["s1"].items) = 3

\* C18: for every installed skill, main started with the skill's name as
\* first argument takes the skill flow, never the question flow or another
\* command; the skill flow and the question flow exclude each other.
C18_SkillNameIsSubcommand ==
    /\ (cli.flow # "none" /\ Len(cli.argv) > 0 /\ cli.argv[1] \in Names
           /\ load_skill(store, cli.argv[1]).found)
          => (cli.flow = "skill" /\ skOp.op = "execute" /\ skOp.name = cli.argv[1])
    /\ cli.flow = "skill" => ask = NotAsked
    /\ cli.flow = "question" => skOp.op = "none"

\* The last 20 entries of a list
Last20(ms) == IF Len(ms) > 20 THEN [i \in 1 .. 20 |-> ms[Len(ms) - 20 + i]] ELSE ms

\* C20: a question-flow run with a session changes the session's file only
\* after the completion call returned an answer, and then to the last 20
\* entries of loaded history + user message + answer; an unreadable
\* attachment, missing credentials (exit code 2) or a failed completion leave
\* the file as loaded; without a session nothing is read or written.
C20_HistoryFrame ==
    [][cli'.flow = "question"
         => /\ \A s \in Sessions \ {cli'.sid} : files'[s] = files[s]
            /\ cli'.sid = "none"
                 => (files' = files /\ ask'.loaded = NoRet /\ lastOp'.op = "none")
            /\ cli'.sid # "none"
                 => /\ ask'.loaded = load_history(files[cli'.sid])
                    /\ ask'.stage \in {"file_error", "no_credentials", "llm_error"}
                         => files' = files
                    /\ ask'.stage = "no_credentials" <=> cli'.exit = "2"
                    /\ files'[cli'.sid] # files[cli'.sid]
                         => (ask'.stage = "answered" /\ Len(ask'.sent) > 0)
                    /\ ask'.saved = "written"
                         => files'[cli'.sid] =
                               [kind |-> "array",
                                items |-> Last20(ask'.loaded.items \o
                                    <<[role |-> "user", content |-> ask'.n],
                                      [role |-> "assistant", content |-> ask'.n]>>)]]_vars

\* the eleventh question of a session was answered: the history of 20
\* entries that was loaded lost its oldest pair
C20_Witness ==
    /\ cli.flow = "question"
    /\ cli.sid = "s1"
    /\ ask.stage = "answered"
    /\ ask.saved = "written"
    /\ ask.n = 11
    /\ Len(ask.loaded.items) = 20
    /\ Len(files["s1"].items) = 20
    /\ files["s1"].items[1] = [role |-> "user", content |-> 2]
    /\ files["s1"].items[20] = [role |-> "assistant", content |-> 11]

\* What a later run finds as the history of session s
Persisted(s) == load_history(files[s]).items

\* Entries 2i-1 and 2i of a list are a question and the answer to it
WholePairs(ms) ==
    /\ Len(ms) % 2 = 0
    /\ \A i \in 1 .. Len(ms) :
          ms[i].role = IF i % 2 = 1 THEN "user" ELSE "assistant"
    /\ \A i \in 1 .. Len(ms) : i % 2 = 1 => ms[i].content = ms[i + 1].content

\* The list ms without its first k entries
DropFirst(ms, k) == [i \in 1 .. Len(ms) - k |-> ms[k + i]]

\* C21: whatever question-flow runs (answered, failed, with failing writes)
\* and resets a session went through since it had no file, its persisted
\* history has even length and alternates user, assistant, from a user entry
\* to an assistant entry; a run that writes leaves the loaded history plus
\* the new pair, less an even number of the oldest entries, and at most 20.
C21_PairsPersist ==
    /\ [](\A s \in Sessions : WholePairs(Persisted(s)))
    /\ [][(cli'.flow = "question" /\ ask'.saved = "written")
            => \E k \in 0 .. 1 :
                  /\ Len(files'[cli'.sid].items) <= 20
                  /\ Len(files'[cli'.sid].items) < 20 => k = 0
                  /\ files'[cli'.sid].items =
                        DropFirst(ask'.loaded.items \o
                                    <<[role |-> "user", content |-> ask'.n],
                                      [role |-> "assistant", content |-> ask'.n]>>,
                                  2 * k)]_vars

\* the twelfth question of a session was answered and written: the loaded
\* history began with the second question, the file begins with the third
C21_Witness ==
    /\ cli.flow = "question"
    /\ ask.saved = "written"
    /\ ask.n = 12
    /\ Len(ask.loaded.items) = 20
    /\ ask.loaded.items[1] = [role |-> "user", content |-> 2]
    /\ Len(Persisted(cli.sid)) = 20
    /\ Persisted(cli.sid)[1] = [role |-> "user", content |-> 3]
    /\ Persisted(cli.sid)[20] = [role |-> "assistant", content |-> 12]

-----------------------------------------------------------------------------
(* Properties of re-installation *)

\* The install whose fetch wrote the handler file that the manifest of the
\* skill names (its version; "none" when there is no such file)
HandlerFetchedBy(st, name) ==
    st[name].handlers[load_skill(st, name).m.handler]

\* C22: whenever execute_skill runs a handler, the handler file is the one
\* that the most recent install of that name fetched: the install that wrote
\* the manifest in force also wrote the handler that runs.
C22_HandlerIsCurrent ==
    (skOp.op = "execute" /\ skOp.cls = "handler")
        => HandlerFetchedBy(store, skOp.name) = load_skill(store, skOp.name).m.version

-----------------------------------------------------------------------------
(* Properties of llmi_runtime *)

\* C23: under every combination of set, empty and unset credential
\* variables, check_llm_env() returns true exactly when LLMMRuntime() can be
\* constructed and check_vision_llm_env() returns true exactly when
\* VisionLLMRuntime() can be constructed; a get_*_runtime() call whose
\* constructor raised leaves its global unset, and a call that finds the
\* global unset runs the constructor.
C23_ChecksAgreeWithConstruction ==
    /\ rtOp.op = "check_llm_env"
         => (rtOp.out <=> LLMMRuntime(env).kind = "runtime")
    /\ rtOp.op = "check_vision_llm_env"
         => (rtOp.out <=> VisionLLMRuntime(env).kind = "runtime")
    /\ (rtOp.op = "get_llm_runtime" /\ rtOp.out = ValueError)
         => (llm_runtime = None /\ rtOp.constructs)
    /\ (rtOp.op = "get_vision_llm_runtime" /\ rtOp.out = ValueError)
         => (vision_llm_runtime = None /\ rtOp.constructs)

====
